---- MODULE Spec2Model ----
(***************************************************************************)
(* The batch research orchestration of App.tsx: the React state of App,    *)
(* the pause/resume/cancel refs, and every live instance of the async      *)
(* handleStartResearch loop, stepped from suspension point to suspension   *)
(* point (JavaScript runs each continuation to its next await).            *)
(* Strings are sequences of one-character strings, so trimming and joining *)
(* are computed.                                                           *)
(***************************************************************************)
EXTENDS Integers, Sequences, FiniteSets, TLC

\* ---------------------------------------------------------------- bounds
\* calls of handleStartResearch explored
MaxRuns == 2
\* rows of an uploaded table
MaxRows == 2
\* files uploaded
MaxUploads == 1

\* ---------------------------------------------------------------- strings
Space == " "
EmptyStr == <<>>
AcmeStr == <<"A", "c", "m", "e">>
BlankStr == <<" ", " ">>
NoteStr == <<"x">>
OkRawStr == <<" ", "o", "k">>
ErrorStr == <<"E", "r", "r", "o", "r">>
NAStr == <<"N", "/", "A">>
NameCol == <<"N", "a", "m", "e">>
NotesCol == <<"N", "o", "t", "e", "s">>
CeoCol == <<"C", "E", "O">>
RevCol == <<"R", "e", "v">>
CeoPrompt == <<"c", "?">>
RevPrompt == <<"r", "?">>

Min(a, b) == IF a < b THEN a ELSE b
Max(a, b) == IF a > b THEN a ELSE b

RECURSIVE TrimStart(_)
TrimStart(s) ==
  IF s # <<>> /\ Head(s) = Space THEN TrimStart(Tail(s)) ELSE s

RECURSIVE TrimEnd(_)
TrimEnd(s) ==
  IF s # <<>> /\ s[Len(s)] = Space THEN TrimEnd(SubSeq(s, 1, Len(s) - 1)) ELSE s

\* String.prototype.trim
Trim(s) == TrimEnd(TrimStart(s))

\* Array.prototype.join
RECURSIVE Join(_, _)
Join(parts, sep) ==
  IF parts = <<>> THEN <<>>
  ELSE IF Len(parts) = 1 THEN parts[1]
  ELSE parts[1] \o sep \o Join(Tail(parts), sep)

\* Array.prototype.includes
Includes(seq, x) == \E n \in 1..Len(seq) : seq[n] = x

\* ---------------------------------------------------------------- rows
\* A CsvRow is a JavaScript object: its entries in insertion order.
HasKey(row, col) == \E n \in 1..Len(row) : row[n].k = col

\* row[col] for a key the row has
Get(row, col) == row[CHOOSE n \in 1..Len(row) : row[n].k = col].v

\* { ...row, [col]: val }: an existing key keeps its place, a new key is appended
SetCell(row, col, val) ==
  IF HasKey(row, col)
  THEN [n \in 1..Len(row) |-> IF row[n].k = col THEN [k |-> col, v |-> val] ELSE row[n]]
  ELSE Append(row, [k |-> col, v |-> val])

MkRow(name) == << [k |-> NameCol, v |-> name], [k |-> NotesCol, v |-> NoteStr] >>

\* the parsed files a user may upload: columns Name, Notes; MaxRows rows, all with
\* a name or one of them, the first or the last, without
Files ==
  { [n \in 1..MaxRows |-> MkRow(IF n = blank THEN BlankStr ELSE AcmeStr)] :
      blank \in {0, 1, MaxRows} }

FileColumns == << NameCol, NotesCol >>

\* ---------------------------------------------------------------- configuration
CeoTask == [id |-> "1", newColumnName |-> CeoCol, prompt |-> CeoPrompt]
RevTask == [id |-> "2", newColumnName |-> RevCol, prompt |-> RevPrompt]
BlankTask == [id |-> "1", newColumnName |-> EmptyStr, prompt |-> EmptyStr]

\* rowLimit: 0 stands for both 0 and undefined (both are falsy in the code)
MkConfig(targets, tasks, thinking, limit) ==
  [targetColumns |-> targets, tasks |-> tasks, useThinkingModel |-> thinking, rowLimit |-> limit]

\* what the configuration form can submit: handleSubmit always passes rowLimit 0
FormConfigs ==
  { MkConfig(<<NameCol>>, <<CeoTask>>, TRUE, 0),
    MkConfig(<<NameCol>>, <<CeoTask, RevTask>>, TRUE, 0),
    MkConfig(<<NameCol>>, <<CeoTask>>, FALSE, 0) }

\* what a direct caller of handleStartResearch can pass: also a configuration the
\* form would not submit, and a row limit below and above the table's size
CoreConfigs ==
  { MkConfig(<<NameCol>>, <<CeoTask, RevTask>>, TRUE, 0),
    MkConfig(<<>>, <<BlankTask>>, FALSE, 0),
    MkConfig(<<NameCol>>, <<CeoTask>>, TRUE, 1),
    MkConfig(<<NameCol>>, <<CeoTask>>, TRUE, MaxRows + 1) }

\* AgentControlPanel: isValid
isValid(config) ==
  /\ Len(config.targetColumns) > 0
  /\ \A n \in 1..Len(config.tasks) :
        config.tasks[n].newColumnName # EmptyStr /\ config.tasks[n].prompt # EmptyStr

\* ---------------------------------------------------------------- batch planner
ThinkingBudget == 2
FastBudget == 10

concurrentLimit(config) == IF config.useThinkingModel THEN ThinkingBudget ELSE FastBudget

\* BatchSize without the floor of one row per batch
BatchSizeNoMinimum(config) == concurrentLimit(config) \div Len(config.tasks)

BatchSize(config) == Max(1, concurrentLimit(config) \div Len(config.tasks))

\* EffectiveTotal ignoring the row limit
EffectiveTotalUnlimited(config, n) == n

EffectiveTotal(config, n) ==
  Min(n, IF config.rowLimit > 0 THEN config.rowLimit ELSE n)

\* ---------------------------------------------------------------- entity resolver
RECURSIVE FilterNonBlank(_)
FilterNonBlank(vals) ==
  IF vals = <<>> THEN <<>>
  ELSE IF Head(vals) # <<>> /\ Trim(Head(vals)) # <<>>
       THEN <<Head(vals)>> \o FilterNonBlank(Tail(vals))
       ELSE FilterNonBlank(Tail(vals))

RECURSIVE TargetValues(_, _)
\* config.targetColumns.map(col => row[col]); undefined (no such key) is falsy and
\* dropped by the filter, as the empty string is
TargetValues(row, targets) ==
  IF targets = <<>> THEN <<>>
  ELSE << IF HasKey(row, Head(targets)) THEN Get(row, Head(targets)) ELSE EmptyStr >>
       \o TargetValues(row, Tail(targets))

EntityName(row, config) ==
  Join(FilterNonBlank(TargetValues(row, config.targetColumns)), <<Space>>)

\* config.tasks.find(t => t.newColumnName === key), as a truth value
IsTaskColumn(config, key) ==
  \E t \in 1..Len(config.tasks) : config.tasks[t].newColumnName = key

\* Object.entries(row).filter(...).map(([key, val]) => `${key}: ${val}`)
RECURSIVE ContextParts(_, _)
ContextParts(row, config) ==
  IF row = <<>> THEN <<>>
  ELSE (IF ~Includes(config.targetColumns, Head(row).k) /\ ~IsTaskColumn(config, Head(row).k)
        THEN << Head(row).k \o <<":", " ">> \o Head(row).v >>
        ELSE <<>>) \o ContextParts(Tail(row), config)

ContextStr(row, config) == Join(ContextParts(row, config), <<",", " ">>)

\* ---------------------------------------------------------------- research task invoker
Source1 == [title |-> <<"S">>, uri |-> <<"u">>]

\* what the provider answers to one call: a failure (timeout, blocked page), or a
\* grounded answer with one web chunk. An answer without text takes the third branch
\* of researchEntity and is, like a failure, a text without sources.
Responses ==
  { [fails |-> TRUE, text |-> EmptyStr, chunks |-> <<>>],
    [fails |-> FALSE, text |-> OkRawStr, chunks |-> << [web |-> TRUE, title |-> <<"S">>, uri |-> <<"u">>] >>] }

RECURSIVE ChunkSources(_)
ChunkSources(chunks) ==
  IF chunks = <<>> THEN <<>>
  ELSE (IF Head(chunks).web
        THEN << [title |-> Head(chunks).title, uri |-> Head(chunks).uri] >>
        ELSE <<>>) \o ChunkSources(Tail(chunks))

\* researchEntity once the API key check has passed
researchEntity(response) ==
  IF response.fails
  THEN [text |-> ErrorStr, sources |-> <<>>]
  ELSE [text |-> IF response.text # EmptyStr THEN Trim(response.text) ELSE NAStr,
        sources |-> ChunkSources(response.chunks)]

\* ---------------------------------------------------------------- state
VARIABLES
  data,              \* useState<CsvRow[]>: the published table
  columns,           \* useState<string[]>
  status,            \* useState<ProcessingStatus>
  processedCount,    \* useState(0)
  activeConfig,      \* useState<ResearchConfig | null>: <<>> is null, <<c>> is c
  cellSources,       \* useState<Record<string, Source[]>>, keyed by <<rowIndex, colName>>
  isPausedRef,       \* useRef(false)
  isCancelledRef,    \* useRef(false)
  resumeResolverRef, \* useRef(null): 0 is null, l is the resolve of loop l's waitForResume promise
  apiKey,            \* geminiService: whether process.env.API_KEY is a non-empty string
  parsing,           \* a handleFileUpload call is awaiting parseDataFile
  loops,             \* the handleStartResearch invocations, in call order
  starts,            \* number of handleStartResearch calls so far
  uploads            \* number of handleFileUpload calls so far

vars == << data, columns, status, processedCount, activeConfig, cellSources, isPausedRef,
           isCancelledRef, resumeResolverRef, apiKey, parsing, loops, starts, uploads >>

IDLE == "IDLE"
PROCESSING == "PROCESSING"
PAUSED == "PAUSED"
COMPLETED == "COMPLETED"

\* where an invocation of handleStartResearch stands
AwaitBatch == "await Promise.all"
AwaitResume == "await waitForResume"
AwaitDelay == "await setTimeout"
Returned == "return"
Done == "end"
Threw == "throw"

Live(lp) == lp.pc \in {AwaitBatch, AwaitResume, AwaitDelay}

Init ==
  /\ data = <<>>
  /\ columns = <<>>
  /\ status = IDLE
  /\ processedCount = 0
  /\ activeConfig = <<>>
  /\ cellSources = << >>
  /\ isPausedRef = FALSE
  /\ isCancelledRef = FALSE
  /\ resumeResolverRef = 0
  /\ apiKey \in BOOLEAN
  /\ parsing = FALSE
  /\ loops = <<>>
  /\ starts = 0
  /\ uploads = 0

\* ---------------------------------------------------------------- the loop body
\* BatchPromises taking one row more than the batch has: j <= batchEnd
RECURSIVE BatchPromisesInclusiveEnd(_, _, _, _)
BatchPromisesInclusiveEnd(newData, config, j, batchEnd) ==
  IF j > batchEnd \/ j >= Len(newData) THEN <<>>
  ELSE (IF EntityName(newData[j + 1], config) # EmptyStr
        THEN [t \in 1..Len(config.tasks) |-> <<j, t - 1>>]
        ELSE <<>>) \o BatchPromisesInclusiveEnd(newData, config, j + 1, batchEnd)

\* BatchPromises researching every row, also one without an entity name
RECURSIVE BatchPromisesNoSkip(_, _, _, _)
BatchPromisesNoSkip(newData, config, j, batchEnd) ==
  IF j >= batchEnd THEN <<>>
  ELSE [t \in 1..Len(config.tasks) |-> <<j, t - 1>>]
         \o BatchPromisesNoSkip(newData, config, j + 1, batchEnd)

\* the promises one batch pushes: <<rowIndex, taskIdx>>, 0-based, rows ascending,
\* tasks in order, rows with an empty entity name skipped
RECURSIVE BatchPromises(_, _, _, _)
BatchPromises(newData, config, j, batchEnd) ==
  IF j >= batchEnd THEN <<>>
  ELSE (IF EntityName(newData[j + 1], config) # EmptyStr
        THEN [t \in 1..Len(config.tasks) |-> <<j, t - 1>>]
        ELSE <<>>) \o BatchPromises(newData, config, j + 1, batchEnd)

\* the arguments of the researchEntity calls one batch makes, in the order of its
\* promises
RECURSIVE BatchCalls(_, _, _, _)
BatchCalls(newData, config, j, batchEnd) ==
  IF j >= batchEnd THEN <<>>
  ELSE (IF EntityName(newData[j + 1], config) # EmptyStr
        THEN [t \in 1..Len(config.tasks) |->
                [entityName |-> EntityName(newData[j + 1], config),
                 userQuery |-> config.tasks[t].prompt,
                 context |-> ContextStr(newData[j + 1], config),
                 useThinkingModel |-> config.useThinkingModel,
                 rowIndex |-> j, taskIndex |-> t - 1]]
        ELSE <<>>) \o BatchCalls(newData, config, j + 1, batchEnd)

\* MergeData publishing before the batch's last write is applied
MergeDataBeforeLastWrite(newData, config, promises, results) ==
  IF Len(promises) < 2 THEN newData
  ELSE LET rowIndex == promises[1][1]
           colName == config.tasks[promises[1][2] + 1].newColumnName
       IN [newData EXCEPT ![rowIndex + 1] =
             SetCell(newData[rowIndex + 1], colName, results[1].text)]

\* MergeData degrading the whole batch when one of its results is the sentinel
RECURSIVE MergeDataFailingBatch(_, _, _, _)
MergeDataFailingBatch(newData, config, promises, results) ==
  IF promises = <<>> THEN newData
  ELSE LET rowIndex == Head(promises)[1]
           colName == config.tasks[Head(promises)[2] + 1].newColumnName
           failed == \E n \in 1..Len(results) : results[n].text = ErrorStr
           merged == [newData EXCEPT ![rowIndex + 1] =
                        SetCell(newData[rowIndex + 1], colName,
                                IF failed THEN ErrorStr ELSE Head(results).text)]
       IN MergeDataFailingBatch(merged, config, Tail(promises),
                                IF failed THEN [n \in 1..(Len(results) - 1) |-> Head(results)]
                                ELSE Tail(results))

\* MergeData writing every result into the first task's column
RECURSIVE MergeDataFirstColumn(_, _, _, _)
MergeDataFirstColumn(newData, config, promises, results) ==
  IF promises = <<>> THEN newData
  ELSE LET rowIndex == Head(promises)[1]
           colName == config.tasks[1].newColumnName
           merged == [newData EXCEPT ![rowIndex + 1] =
                        SetCell(newData[rowIndex + 1], colName, Head(results).text)]
       IN MergeDataFirstColumn(merged, config, Tail(promises), Tail(results))

\* results.forEach: the row updates, in the order of the promises
RECURSIVE MergeData(_, _, _, _)
MergeData(newData, config, promises, results) ==
  IF promises = <<>> THEN newData
  ELSE LET rowIndex == Head(promises)[1]
           colName == config.tasks[Head(promises)[2] + 1].newColumnName
           merged == [newData EXCEPT ![rowIndex + 1] =
                        SetCell(newData[rowIndex + 1], colName, Head(results).text)]
       IN MergeData(merged, config, Tail(promises), Tail(results))

\* MergeSources recording a result's sources even when it has none
RECURSIVE MergeSourcesAlways(_, _, _, _)
MergeSourcesAlways(newSources, config, promises, results) ==
  IF promises = <<>> THEN newSources
  ELSE LET key == << Head(promises)[1], config.tasks[Head(promises)[2] + 1].newColumnName >>
           next == [q \in (DOMAIN newSources) \cup {key} |->
                      IF q = key THEN Head(results).sources ELSE newSources[q]]
       IN MergeSourcesAlways(next, config, Tail(promises), Tail(results))

\* results.forEach: newSources, as the pairs key :> sources it collects
RECURSIVE MergeSources(_, _, _, _)
MergeSources(newSources, config, promises, results) ==
  IF promises = <<>> THEN newSources
  ELSE LET key == << Head(promises)[1], config.tasks[Head(promises)[2] + 1].newColumnName >>
           next == IF Len(Head(results).sources) > 0
                   THEN [q \in (DOMAIN newSources) \cup {key} |->
                           IF q = key THEN Head(results).sources ELSE newSources[q]]
                   ELSE newSources
       IN MergeSources(next, config, Tail(promises), Tail(results))

\* Spread keeping only the batch's entries: setCellSources(newSources)
SpreadReplacing(prev, newSources) == newSources

\* { ...prev, ...newSources }
Spread(prev, newSources) ==
  [q \in (DOMAIN prev) \cup (DOMAIN newSources) |->
     IF q \in DOMAIN newSources THEN newSources[q] ELSE prev[q]]

\* the texts a loop has merged so far, by <<rowIndex, colName>>: history, read by
\* the properties (as is lastSettled, the call whose answer completed the batch the
\* loop published last)
RECURSIVE LogResults(_, _, _, _)
LogResults(log, config, promises, results) ==
  IF promises = <<>> THEN log
  ELSE LET key == << Head(promises)[1], config.tasks[Head(promises)[2] + 1].newColumnName >>
       IN LogResults([q \in (DOMAIN log) \cup {key} |->
                        IF q = key THEN Head(results).text ELSE log[q]],
                     config, Tail(promises), Tail(results))

\* The invocation has ended: its working copy is garbage and is dropped.
Ended(lp, how) ==
  [lp EXCEPT !.pc = how, !.newData = <<>>, !.log = << >>, !.lastSettled = 0]

\* the delays of line 225, in milliseconds
ThinkingDelay == 4000
FastDelay == 2000

\* BatchDelay with the two delays exchanged
BatchDelaySwapped(config) == IF config.useThinkingModel THEN FastDelay ELSE ThinkingDelay

\* config.useThinkingModel ? 4000 : 2000
BatchDelay(config) == IF config.useThinkingModel THEN ThinkingDelay ELSE FastDelay

\* AfterBatch advancing the progress to the start of the batch, not its end
AfterBatchStaleCount(l, lp, ls, st) ==
  /\ data' = lp.newData
  /\ processedCount' = lp.i
  /\ IF lp.batchEnd < lp.effectiveTotal
     THEN /\ loops' = [ls EXCEPT ![l] = [lp EXCEPT !.pc = AwaitDelay,
                                                    !.timer = BatchDelay(lp.config)]]
          /\ status' = st
     ELSE /\ loops' = [ls EXCEPT ![l] = Ended(lp, Done)]
          /\ status' = COMPLETED

\* Lines 219-229: publish the working copy and the progress, then sleep or finish.
\* lp is loop l's record with the batch merged; ls the other loops' records.
AfterBatch(l, lp, ls, st) ==
  /\ data' = lp.newData
  /\ processedCount' = lp.batchEnd
  /\ IF lp.batchEnd < lp.effectiveTotal
     THEN /\ loops' = [ls EXCEPT ![l] = [lp EXCEPT !.pc = AwaitDelay,
                                                    !.timer = BatchDelay(lp.config)]]
          /\ status' = st
     ELSE /\ loops' = [ls EXCEPT ![l] = Ended(lp, Done)]
          /\ status' = COMPLETED

\* Lines 154-195: build and fire the batch starting at lp.i
FireBatch(l, lp, ls, st, cnt) ==
  LET batchEnd == Min(lp.i + lp.BATCH_SIZE, lp.effectiveTotal)
      promises == BatchPromises(lp.newData, lp.config, lp.i, batchEnd)
      fired == [lp EXCEPT !.batchEnd = batchEnd, !.promises = promises,
                          !.results = [n \in {} |-> 0], !.lastSettled = 0,
                          !.fired = lp.fired + Len(promises)]
  IN IF Len(promises) > 0
     THEN /\ loops' = [ls EXCEPT ![l] =
                         [fired EXCEPT !.pc = IF apiKey THEN AwaitBatch ELSE Threw]]
          /\ status' = st
          /\ processedCount' = cnt
          /\ UNCHANGED data
     ELSE AfterBatch(l, fired, ls, st)

\* Lines 139-152: the top of an iteration, with the refs as they stand
Iterate(l, lp, ls, st) ==
  IF isCancelledRef
  THEN /\ loops' = [ls EXCEPT ![l] = Ended(lp, Returned)]
       /\ status' = st
       /\ UNCHANGED << data, processedCount, resumeResolverRef >>
  ELSE IF isPausedRef
  THEN /\ loops' = [ls EXCEPT ![l] = [lp EXCEPT !.pc = AwaitResume]]
       /\ resumeResolverRef' = l
       /\ status' = st
       /\ UNCHANGED << data, processedCount >>
  ELSE /\ FireBatch(l, lp, ls, st, processedCount)
       /\ UNCHANGED resumeResolverRef

\* ---------------------------------------------------------------- handlers
\* config.tasks.map(t => t.newColumnName).filter(name => !columns.includes(name))
RECURSIVE NewColumnsToAdd(_, _)
NewColumnsToAdd(tasks, cols) ==
  IF tasks = <<>> THEN <<>>
  ELSE (IF Includes(cols, Head(tasks).newColumnName) THEN <<>>
        ELSE << Head(tasks).newColumnName >>) \o NewColumnsToAdd(Tail(tasks), cols)

\* the record of a loop at line 139, before its first iteration
NewLoop(config) ==
  [pc |-> AwaitBatch, config |-> config, newData |-> data, i |-> 0,
   effectiveTotal |-> EffectiveTotal(config, Len(data)),
   BATCH_SIZE |-> BatchSize(config), batchEnd |-> 0,
   promises |-> <<>>, results |-> <<>>, fired |-> 0,
   cancelIssued |-> FALSE, cancelWhilePaused |-> FALSE, pauseIssued |-> FALSE,
   cancelInFlight |-> FALSE, log |-> << >>, timer |-> 0, lastSettled |-> 0]

\* handleStartResearch resetting the refs before it looks at the table
handleStartResearchResetsFirst(config) ==
  /\ starts < MaxRuns
  /\ starts' = starts + 1
  /\ isPausedRef' = FALSE
  /\ isCancelledRef' = FALSE
  /\ resumeResolverRef' = 0
  /\ IF Len(data) = 0
     THEN UNCHANGED << data, columns, status, processedCount, activeConfig, cellSources,
                       apiKey, parsing, loops, uploads >>
     ELSE /\ activeConfig' = << config >>
          /\ columns' = columns \o NewColumnsToAdd(config.tasks, columns)
          /\ FireBatch(Len(loops) + 1, NewLoop(config), Append(loops, NewLoop(config)),
                       PROCESSING, 0)
          /\ UNCHANGED << cellSources, apiKey, parsing, uploads >>

\* handleStartResearch leaving the stored continuation and the paused flag as they
\* are
handleStartResearchKeepsPause(config) ==
  /\ starts < MaxRuns
  /\ starts' = starts + 1
  /\ IF Len(data) = 0
     THEN UNCHANGED << data, columns, status, processedCount, activeConfig, cellSources,
                       isPausedRef, isCancelledRef, resumeResolverRef, apiKey, parsing, loops, uploads >>
     ELSE /\ isCancelledRef' = FALSE
          /\ activeConfig' = << config >>
          /\ columns' = columns \o NewColumnsToAdd(config.tasks, columns)
          /\ FireBatch(Len(loops) + 1, NewLoop(config), Append(loops, NewLoop(config)),
                       PROCESSING, 0)
          /\ UNCHANGED << cellSources, apiKey, parsing, uploads, isPausedRef, resumeResolverRef >>

\* Lines 108-139 and the first iteration up to its first await. The refs were
\* reset two lines above the loop, so the first iteration passes both checks.
handleStartResearch(config) ==
  /\ starts < MaxRuns
  /\ starts' = starts + 1
  /\ IF Len(data) = 0
     THEN UNCHANGED << data, columns, status, processedCount, activeConfig, cellSources,
                       isPausedRef, isCancelledRef, resumeResolverRef, apiKey, parsing, loops, uploads >>
     ELSE /\ isPausedRef' = FALSE
          /\ isCancelledRef' = FALSE
          /\ resumeResolverRef' = 0
          /\ activeConfig' = << config >>
          /\ columns' = columns \o NewColumnsToAdd(config.tasks, columns)
          /\ FireBatch(Len(loops) + 1, NewLoop(config), Append(loops, NewLoop(config)),
                       PROCESSING, 0)
          /\ UNCHANGED << cellSources, apiKey, parsing, uploads >>

\* pause() was issued while these loops were running and no resume() since:
\* history, read by the properties
MarkPaused(ls) ==
  [l \in 1..Len(ls) |-> IF Live(ls[l]) THEN [ls[l] EXCEPT !.pauseIssued = TRUE] ELSE ls[l]]

ClearPaused(ls) == [l \in 1..Len(ls) |-> [ls[l] EXCEPT !.pauseIssued = FALSE]]

\* Lines 73-76
handlePause ==
  /\ isPausedRef' = TRUE
  /\ status' = PAUSED
  /\ loops' = MarkPaused(loops)
  /\ UNCHANGED << data, columns, processedCount, activeConfig, cellSources, isCancelledRef,
                  resumeResolverRef, apiKey, parsing, starts, uploads >>

\* Lines 147-152 after the waitForResume promise of loop l was resolved: the
\* continuation runs as a microtask right after the handler that resolved it.
Wake(l, ls, cancelled, st) ==
  IF cancelled
  THEN /\ loops' = [ls EXCEPT ![l] = Ended(ls[l], Returned)]
       /\ status' = st
       /\ UNCHANGED << data, processedCount >>
  ELSE FireBatch(l, ls[l], ls, st, processedCount)

\* Lines 79-87
handleResume ==
  /\ isPausedRef' = FALSE
  /\ resumeResolverRef' = 0
  /\ IF resumeResolverRef # 0
     THEN Wake(resumeResolverRef, ClearPaused(loops), isCancelledRef, PROCESSING)
     ELSE /\ status' = PROCESSING
          /\ loops' = ClearPaused(loops)
          /\ UNCHANGED << data, processedCount >>
  /\ UNCHANGED << columns, activeConfig, cellSources, isCancelledRef, apiKey, parsing, starts,
                  uploads >>

\* cancel() was issued while these loops were running: history, read by the properties
MarkCancelled(ls) ==
  [l \in 1..Len(ls) |->
     IF Live(ls[l])
     THEN [ls[l] EXCEPT !.cancelIssued = TRUE,
                        !.cancelWhilePaused = ls[l].cancelWhilePaused \/ status = PAUSED,
                        !.cancelInFlight = ls[l].cancelInFlight \/ ls[l].pc = AwaitBatch]
     ELSE ls[l]]

\* Lines 97-106
handleCancel ==
  /\ isCancelledRef' = TRUE
  /\ isPausedRef' = FALSE
  /\ resumeResolverRef' = 0
  /\ IF resumeResolverRef # 0
     THEN Wake(resumeResolverRef, MarkCancelled(loops), TRUE, IDLE)
     ELSE /\ status' = IDLE
          /\ loops' = MarkCancelled(loops)
          /\ UNCHANGED << data, processedCount >>
  /\ UNCHANGED << columns, activeConfig, cellSources, apiKey, parsing, starts, uploads >>

\* Lines 48-59, the user confirming
handleClearData ==
  /\ data' = <<>>
  /\ columns' = <<>>
  /\ status' = IDLE
  /\ processedCount' = 0
  /\ activeConfig' = <<>>
  /\ cellSources' = << >>
  /\ UNCHANGED << isPausedRef, isCancelledRef, resumeResolverRef, apiKey, parsing, loops, starts, uploads >>

\* Lines 29-35: up to the await of parseDataFile (one file is parsed at a time)
handleFileUpload ==
  /\ ~parsing
  /\ uploads < MaxUploads
  /\ uploads' = uploads + 1
  /\ parsing' = TRUE
  /\ status' = IDLE
  /\ processedCount' = 0
  /\ activeConfig' = <<>>
  /\ cellSources' = << >>
  /\ UNCHANGED << data, columns, isPausedRef, isCancelledRef, resumeResolverRef, apiKey,
                  loops, starts >>

\* Lines 37-41: parseDataFile resolved
ParseDone ==
  /\ parsing
  /\ parsing' = FALSE
  /\ \E file \in Files : data' = file
  /\ columns' = FileColumns
  /\ UNCHANGED << status, processedCount, activeConfig, cellSources, isPausedRef,
                  isCancelledRef, resumeResolverRef, apiKey, loops, starts, uploads >>

\* Lines 42-45: parseDataFile rejected
ParseFail ==
  /\ parsing
  /\ parsing' = FALSE
  /\ UNCHANGED << data, columns, status, processedCount, activeConfig, cellSources,
                  isPausedRef, isCancelledRef, resumeResolverRef, apiKey, loops, starts, uploads >>

\* ---------------------------------------------------------------- the loops' steps
\* SettleWith keeping the results in the order they arrive, not the order of the calls
SettleWithArrivalOrder(l, n, response) ==
  LET lp == loops[l]
      slot == Cardinality(DOMAIN lp.results) + 1
      arrived == [m \in 1..slot |->
                    IF m = slot THEN researchEntity(response) ELSE lp.results[m]]
  IN /\ \A m \in 1..(slot - 1) : m \in DOMAIN lp.results
     /\ IF slot # Len(lp.promises)
        THEN /\ loops' = [loops EXCEPT ![l] = [lp EXCEPT !.results = arrived]]
             /\ UNCHANGED << data, status, processedCount, cellSources >>
        ELSE /\ cellSources' = Spread(cellSources,
                                      MergeSources(<< >>, lp.config, lp.promises, arrived))
             /\ AfterBatch(l,
                           [lp EXCEPT !.results = arrived, !.lastSettled = n,
                                      !.newData = MergeData(lp.newData, lp.config,
                                                            lp.promises, arrived),
                                      !.log = LogResults(lp.log, lp.config,
                                                         lp.promises, arrived)],
                           loops, status)
     /\ UNCHANGED << columns, activeConfig, isPausedRef, isCancelledRef, resumeResolverRef,
                     apiKey, parsing, starts, uploads >>

\* Lines 177-187 and 195-229: one researchEntity promise of loop l settles; with the
\* last one Promise.all resolves and the loop merges, publishes and goes on.
SettleWith(l, n, response) ==
  LET lp == loops[l]
      results == [m \in (DOMAIN lp.results) \cup {n} |->
                    IF m = n THEN researchEntity(response) ELSE lp.results[m]]
  IN /\ IF DOMAIN results # 1..Len(lp.promises)
        THEN /\ loops' = [loops EXCEPT ![l] = [lp EXCEPT !.results = results]]
             /\ UNCHANGED << data, status, processedCount, cellSources >>
        ELSE /\ cellSources' = Spread(cellSources,
                                      MergeSources(<< >>, lp.config, lp.promises, results))
             /\ AfterBatch(l,
                           [lp EXCEPT !.results = results, !.lastSettled = n,
                                      !.newData = MergeData(lp.newData, lp.config,
                                                            lp.promises, results),
                                      !.log = LogResults(lp.log, lp.config,
                                                         lp.promises, results)],
                           loops, status)
     /\ UNCHANGED << columns, activeConfig, isPausedRef, isCancelledRef, resumeResolverRef,
                     apiKey, parsing, starts, uploads >>

\* the provider answers the n-th call of loop l's batch, in any of the ways it can
Settle ==
  \E l \in 1..Len(loops) :
    /\ loops[l].pc = AwaitBatch
    /\ \E n \in (1..Len(loops[l].promises)) \ DOMAIN loops[l].results :
       \E response \in Responses : SettleWith(l, n, response)

\* Lines 224-226 and the next iteration: the inter-batch timer of loop l fires
DelayDone ==
  \E l \in 1..Len(loops) :
    /\ loops[l].pc = AwaitDelay
    /\ Iterate(l, [loops[l] EXCEPT !.i = loops[l].i + loops[l].BATCH_SIZE, !.timer = 0],
               loops, status)
    /\ UNCHANGED << columns, activeConfig, cellSources, isPausedRef, isCancelledRef,
                    apiKey, parsing, starts, uploads >>

\* ---------------------------------------------------------------- the user interface
\* AgentControlPanel: isRunning
isRunning == status \in {PROCESSING, PAUSED}

\* App renders the uploader while the table is empty and the panel otherwise
PanelShown == Len(data) # 0

\* Start Agent: shown when not running; handleSubmit calls onStart for a valid form
ClickStart ==
  /\ PanelShown /\ ~isRunning
  /\ \E config \in FormConfigs : isValid(config) /\ handleStartResearch(config)

\* the Pause/Resume button shows Pause unless the status is PAUSED
ClickPause == PanelShown /\ status = PROCESSING /\ handlePause

ClickResume == PanelShown /\ status = PAUSED /\ handleResume

ClickCancel == PanelShown /\ isRunning /\ handleCancel

ClickClear == PanelShown /\ ~isRunning /\ handleClearData

DropFile == ~PanelShown /\ handleFileUpload

Next ==
  \/ ClickStart
  \/ ClickPause
  \/ ClickResume
  \/ ClickCancel
  \/ ClickClear
  \/ DropFile
  \/ ParseDone
  \/ ParseFail
  \/ Settle
  \/ DelayDone

Spec == Init /\ [][Next]_vars

\* ---------------------------------------------------------------- the core, called directly
\* start, pause, resume and cancel called in any state and with any configuration,
\* as a caller other than AgentControlPanel may; the table is still loaded and
\* cleared through the page.
CallStart == \E config \in CoreConfigs : handleStartResearch(config)

NextCore ==
  \/ CallStart
  \/ handlePause
  \/ handleResume
  \/ handleCancel
  \/ ClickClear
  \/ DropFile
  \/ ParseDone
  \/ ParseFail
  \/ Settle
  \/ DelayDone

SpecCore == Init /\ [][NextCore]_vars

\* ---------------------------------------------------------------- the planner and the resolver
\* One call of handleStartResearch on a loaded table, over a wide range of tables
\* and configurations: what it plans (batch size, effective total) and what the
\* first batch passes to researchEntity.
MaxPlanTasks == 12
MaxPlanRows == 11

Letters == << "a", "b", "c", "d", "e", "f", "g", "h", "i", "j", "k", "l", "m", "n", "o", "p" >>
CityCol == <<"C", "i", "t", "y">>
PaddedStr == <<" ", "A", "c", "m", "e", " ">>
TwoWordStr == <<"N", "e", "w", " ", " ", "Y", "o", "r", "k">>

PlanTasks(n) ==
  [t \in 1..n |-> [id |-> Letters[t], newColumnName |-> <<"T", Letters[t]>>, prompt |-> CeoPrompt]]

\* a task list the form accepts: a column the file has, and one new name typed twice
ColumnTasks ==
  << [id |-> "a", newColumnName |-> NotesCol, prompt |-> CeoPrompt],
     [id |-> "b", newColumnName |-> CeoCol, prompt |-> CeoPrompt],
     [id |-> "c", newColumnName |-> CeoCol, prompt |-> RevPrompt] >>

PlanConfigs ==
  { MkConfig(targets, PlanTasks(n), thinking, 0) :
      targets \in { <<NameCol>>, <<NameCol, CityCol>>, <<CityCol, NameCol>> },
      n \in 1..MaxPlanTasks, thinking \in BOOLEAN }
  \cup { MkConfig(<<NameCol>>, SubSeq(ColumnTasks, 1, n), FALSE, 0) : n \in 1..3 }

PlanRow(name, city) ==
  << [k |-> NameCol, v |-> name], [k |-> CityCol, v |-> city], [k |-> NotesCol, v |-> NoteStr] >>

PlanValues == { AcmeStr, PaddedStr, TwoWordStr, BlankStr, EmptyStr }

\* tables of one row and of MaxPlanRows equal rows
PlanFiles ==
  { [n \in 1..size |-> PlanRow(name, city)] :
      size \in {1, MaxPlanRows}, name \in PlanValues, city \in PlanValues }

\* the page after one of PlanFiles was uploaded and parsed
InitPlan ==
  /\ data \in PlanFiles
  /\ columns = << NameCol, CityCol, NotesCol >>
  /\ status = IDLE
  /\ processedCount = 0
  /\ activeConfig = <<>>
  /\ cellSources = << >>
  /\ isPausedRef = FALSE
  /\ isCancelledRef = FALSE
  /\ resumeResolverRef = 0
  /\ apiKey \in BOOLEAN
  /\ parsing = FALSE
  /\ loops = <<>>
  /\ starts = 0
  /\ uploads = 1

PlanStart == Len(loops) = 0 /\ \E config \in PlanConfigs : handleStartResearch(config)

NextPlan == PlanStart

SpecPlan == InitPlan /\ [][NextPlan]_vars

\* ---------------------------------------------------------------- runs repeated
\* The page with a deterministic provider and runs left to complete: no pause, no
\* cancel, no clear. The provider's answer repeats everything it was asked, so two
\* calls get the same answer exactly when their arguments are the same. Its web
\* chunk is titled by the question and the context; the thinking model's answer to
\* the CEO question comes without grounding metadata.
StubResponse(call) ==
  [fails |-> FALSE,
   text |-> <<Space>> \o call.entityName \o <<"|">> \o call.userQuery \o <<"|">> \o call.context,
   chunks |-> IF call.useThinkingModel /\ call.userQuery = CeoPrompt
              THEN <<>>
              ELSE << [web |-> TRUE,
                       title |-> call.userQuery \o <<"|">> \o call.context,
                       uri |-> <<"u">>] >>]

SettleStub ==
  \E l \in 1..Len(loops) :
    /\ loops[l].pc = AwaitBatch
    /\ \E n \in (1..Len(loops[l].promises)) \ DOMAIN loops[l].results :
         SettleWith(l, n, StubResponse(BatchCalls(loops[l].newData, loops[l].config,
                                                  loops[l].i, loops[l].batchEnd)[n]))

\* tasks that write into a column the file already has
NotesTask == [id |-> "1", newColumnName |-> NotesCol, prompt |-> CeoPrompt]
NameTask == [id |-> "1", newColumnName |-> NameCol, prompt |-> CeoPrompt]

\* the fast configuration has more tasks than half its budget: one row per batch
RerunConfigs ==
  { MkConfig(<<NameCol>>, <<CeoTask>>, FALSE, 0),
    MkConfig(<<NameCol>>, <<CeoTask, RevTask>>, FALSE, 0),
    MkConfig(<<NameCol>>, <<CeoTask, RevTask>>, TRUE, 0),
    MkConfig(<<NameCol>>, PlanTasks(FastBudget \div 2 + 1), FALSE, 0),
    MkConfig(<<NameCol>>, <<NotesTask>>, TRUE, 0),
    MkConfig(<<NameCol>>, <<NameTask>>, TRUE, 0) }

StartRerun ==
  /\ PanelShown /\ ~isRunning
  /\ \E config \in RerunConfigs : isValid(config) /\ handleStartResearch(config)

NextRerun ==
  \/ DropFile
  \/ ParseDone
  \/ ParseFail
  \/ StartRerun
  \/ SettleStub
  \/ DelayDone

SpecRerun == Init /\ [][NextRerun]_vars

\* ---------------------------------------------------------------- properties
\* the latest call of handleStartResearch that began a run, 0 when there is none
Latest == Len(loops)

\* loop l fires the invocations of a batch in this step
Fires(l) ==
  /\ l <= Len(loops')
  /\ loops'[l].fired > (IF l <= Len(loops) THEN loops[l].fired ELSE 0)

\* C1: a run for which cancel() was issued never afterwards sets the status to
\* Completed (it never runs to the end of handleStartResearch), and once the current
\* run is cancelled the status is Idle until a new start().
C1_CancelledRunNeverCompletes ==
  /\ \A l \in 1..Len(loops) : loops[l].cancelIssued => loops[l].pc # Done
  /\ (Latest > 0 /\ loops[Latest].cancelIssued) => status = IDLE

\* C2: a run for which cancel() was issued while it was paused starts no further
\* batch, ends by the return of a cancellation check, and once it has ended the
\* status is Idle (until a new start).
C2_CancelWhilePausedStops ==
  [][ /\ \A l \in 1..Len(loops) : loops[l].cancelWhilePaused => ~Fires(l)
      /\ \A l \in 1..Len(loops') :
           (loops'[l].cancelWhilePaused /\ ~Live(loops'[l])) =>
             /\ loops'[l].pc = Returned
             /\ l = Len(loops') => status' = IDLE ]_vars

\* C3: once cancel() has been issued for a run, that run's loop fires no further
\* invocation, whatever pause, resume, cancel or start follows.
C3_CancelledRunFiresNothing ==
  [][ \A l \in 1..Len(loops) : loops[l].cancelIssued => ~Fires(l) ]_vars

\* the step is a user's reset of the page (clear, upload), not a step of a run
IsReset == activeConfig' = <<>>

\* C4: from a start() to the end of the run it began processedCount never decreases
\* (a reset of the page aside), and whenever the status is Completed it equals the
\* run's effectiveTotal.
C4_ProgressMonotonic ==
  [][ /\ (Latest > 0 /\ Live(loops[Latest]) /\ Len(loops') = Len(loops) /\ ~IsReset) =>
           processedCount' >= processedCount
      /\ (Latest > 0 /\ Len(loops') = Len(loops) /\ status' = COMPLETED) =>
           processedCount' = loops[Latest].effectiveTotal ]_vars

\* a configuration error: an invalid form, or no provider credentials
ConfigError(config) == ~isValid(config) \/ ~apiKey

\* C7: under a configuration error no run starts: no invocation is fired for it and
\* the status does not leave Idle.
C7_ConfigErrorRejected ==
  \A l \in 1..Len(loops) :
    ConfigError(loops[l].config) => (loops[l].fired = 0 /\ (l = Latest => status = IDLE))

\* C8: a run ends with the status Completed or Idle: whenever the loop of the latest
\* start() has ended, however it ended, the status is one of the two.
C8_RunEndsCompletedOrIdle ==
  (Latest > 0 /\ ~Live(loops[Latest])) => status \in {IDLE, COMPLETED}

\* C9: start() while the status is Processing or Paused is rejected: it changes
\* neither the status, processedCount, the control flags nor the table, and begins
\* no second loop.
C9_StartWhileRunningRejected ==
  [][ (status \in {PROCESSING, PAUSED} /\ Latest > 0 /\ Live(loops[Latest])
       /\ starts' # starts) =>
        /\ UNCHANGED << status, processedCount, isPausedRef, isCancelledRef,
                        resumeResolverRef, data >>
        /\ Len(loops') = Len(loops) ]_vars

\* C10: the status changes only along the state machine: Paused and Completed are
\* entered from Processing, resume enters Processing from Paused, and Idle is
\* entered from Processing or Paused by cancel alone.
C10_StatusStateMachine ==
  [][ status' # status =>
        /\ status' = PAUSED => status = PROCESSING
        /\ status' = COMPLETED => status = PROCESSING
        /\ (status' = PROCESSING /\ Len(loops') = Len(loops)) => status = PAUSED
        /\ (status' = IDLE /\ status \in {PROCESSING, PAUSED}) =>
             (isCancelledRef' /\ ~isPausedRef' /\ resumeResolverRef' = 0) ]_vars

\* loop l, awaiting a batch, has its Promise.all resolved in this step and publishes
Publishes(l) == loops[l].pc = AwaitBatch /\ loops'[l].pc \in {AwaitDelay, Done}

\* the row and column the n-th promise of loop record lp writes
WriteRow(lp, n) == lp.promises[n][1] + 1
WriteCol(lp, n) == lp.config.tasks[lp.promises[n][2] + 1].newColumnName

\* the table tbl holds the text of the n-th result of lp's batch in its cell
Written(tbl, lp, n) ==
  /\ WriteRow(lp, n) <= Len(tbl)
  /\ HasKey(tbl[WriteRow(lp, n)], WriteCol(lp, n))
  /\ Get(tbl[WriteRow(lp, n)], WriteCol(lp, n)) = lp.results[n].text

\* C5: every table a loop publishes holds all of the batch's writes, and while only
\* some of a batch's invocations have settled the loop publishes nothing: one
\* publish per batch.
C5_BatchPublishedWhole ==
  [][ \A l \in 1..Len(loops) :
        /\ Publishes(l) =>
             \A n \in 1..Len(loops'[l].promises) : Written(data', loops'[l], n)
        /\ (loops[l].pc = AwaitBatch /\ loops'[l].pc = AwaitBatch
            /\ loops'[l].results # loops[l].results) => data' = data ]_vars

\* a batch of two writes was published and the run goes on
C5_Witness ==
  \E l \in 1..Len(loops) :
    /\ loops[l].pc = AwaitDelay
    /\ Len(loops[l].promises) = 2
    /\ data = loops[l].newData
    /\ \A n \in 1..2 : Written(data, loops[l], n)

\* C6: when a result of a batch is the "Error" sentinel, the published table has
\* "Error" in that result's cell only, every other result's text in its own cell with
\* its sources recorded, and the loop goes on: to the delay before the next batch,
\* or to its end after the last.
C6_ErrorIsolated ==
  [][ \A l \in 1..Len(loops) :
        (Publishes(l) /\ \E e \in 1..Len(loops'[l].promises) :
                           loops'[l].results[e].text = ErrorStr) =>
          /\ \A n \in 1..Len(loops'[l].promises) :
               /\ Written(data', loops'[l], n)
               /\ loops'[l].results[n].text # ErrorStr =>
                    Get(data'[WriteRow(loops'[l], n)], WriteCol(loops'[l], n)) # ErrorStr
               /\ Len(loops'[l].results[n].sources) > 0 =>
                    /\ << WriteRow(loops'[l], n) - 1, WriteCol(loops'[l], n) >>
                         \in DOMAIN cellSources'
                    /\ cellSources'[<< WriteRow(loops'[l], n) - 1, WriteCol(loops'[l], n) >>]
                         = loops'[l].results[n].sources
          /\ loops'[l].pc = IF loops'[l].batchEnd < loops'[l].effectiveTotal
                            THEN AwaitDelay ELSE Done ]_vars

\* a batch with one "Error" and one answer was published and the run goes on
C6_Witness ==
  \E l \in 1..Len(loops) :
    /\ loops[l].pc = AwaitDelay
    /\ Len(loops[l].promises) = 2
    /\ loops[l].results[1].text = ErrorStr
    /\ loops[l].results[2].text # ErrorStr
    /\ data = loops[l].newData
    /\ Written(data, loops[l], 1) /\ Written(data, loops[l], 2)

\* the n-th result of loop record lp's batch is in lp's working copy
Merged(lp, n) == Written(lp.newData, lp, n)

\* C11: a loop fires the invocations of a further batch only from the delay or the
\* pause-wait that follow a publish, never while a batch of its own is in flight; by
\* then every result of the previous batch has settled and is merged, the new batch
\* begins at the row the previous one ended at, and the publish that ended the
\* previous batch put all its results in the table and processedCount at its end.
C11_BatchesSequential ==
  [][ \A l \in 1..Len(loops) :
        /\ Fires(l) =>
             /\ loops[l].pc \in {AwaitDelay, AwaitResume}
             /\ DOMAIN loops[l].results = 1..Len(loops[l].promises)
             /\ \A n \in 1..Len(loops[l].promises) : Merged(loops[l], n)
             /\ loops'[l].i = loops[l].batchEnd
        /\ (loops[l].pc = AwaitBatch /\ loops'[l].pc # AwaitBatch) =>
             /\ \A n \in 1..Len(loops'[l].promises) : Written(data', loops'[l], n)
             /\ processedCount' = loops'[l].batchEnd
             /\ loops'[l].batchEnd = Min(loops[l].i + loops[l].BATCH_SIZE,
                                         loops[l].effectiveTotal) ]_vars

\* a loop is awaiting its second batch, the first one published
C11_Witness ==
  \E l \in 1..Len(loops) :
    /\ loops[l].pc = AwaitBatch
    /\ loops[l].i > 0
    /\ Len(loops[l].promises) > 0
    /\ Len(data) > 0
    /\ processedCount = loops[l].i
    /\ \E col \in {CeoCol, RevCol} : HasKey(data[1], col)

\* C12: a loop that was running when pause() was issued fires no invocation of a new
\* batch until resume() is issued, and the pause leaves the batch it has in flight
\* as it is.
C12_PausedLoopFiresNothing ==
  [][ \A l \in 1..Len(loops) :
        /\ (loops[l].pauseIssued /\ loops'[l].pauseIssued) => ~Fires(l)
        /\ (~loops[l].pauseIssued /\ loops'[l].pauseIssued) =>
             /\ loops'[l].pc = loops[l].pc
             /\ loops'[l].promises = loops[l].promises
             /\ loops'[l].results = loops[l].results ]_vars

\* C13: when resume() is issued while a loop is suspended at the pause-wait, the
\* paused flag is cleared, the continuation slot is emptied, the loop leaves the
\* pause-wait and starts its next batch, and the status is Processing (or Completed,
\* when that batch was the last and had nothing to fire).
C13_ResumeReleasesWaiter ==
  [][ \A l \in 1..Len(loops) :
        (loops[l].pc = AwaitResume /\ handleResume) =>
          /\ isPausedRef' = FALSE
          /\ resumeResolverRef' = 0
          /\ loops'[l].pc # AwaitResume
          /\ loops'[l].batchEnd = Min(loops[l].i + loops[l].BATCH_SIZE,
                                      loops[l].effectiveTotal)
          /\ \/ status' = PROCESSING
             \/ loops'[l].pc = Done /\ status' = COMPLETED ]_vars

\* C14: when cancel() is issued no loop remains suspended at the pause-wait: every
\* loop that was waiting for resume has been released and has ended by the return of
\* the cancellation check.
C14_CancelReleasesWaiters ==
  [][ handleCancel =>
        \A l \in 1..Len(loops) :
          loops[l].pc = AwaitResume => loops'[l].pc = Returned ]_vars

\* the concurrency budget the claim states: 2 with the thinking model, 10 without
ClaimedBudget(config) == IF config.useThinkingModel THEN 2 ELSE 10

\* C15: the batch size a loop uses is max(1, floor(budget / tasksPerRow)): at least 1,
\* the largest number of rows whose invocations fit in the budget when one row
\* fits, and 1 when not even one row fits; the first batch ends that many rows into
\* the table (or at its end), and 3 tasks with the fast model give 3, 5 tasks with
\* the thinking model give 1.
C15_BatchSize ==
  \A l \in 1..Len(loops) :
    LET t == Len(loops[l].config.tasks)
        budget == ClaimedBudget(loops[l].config)
        size == loops[l].BATCH_SIZE
    IN /\ size >= 1
       /\ (size + 1) * t > budget
       /\ size * t <= budget \/ (size = 1 /\ t > budget)
       /\ loops[l].batchEnd = Min(size, Len(data))
       /\ \A n \in 1..Len(loops[l].promises) : loops[l].promises[n][1] < size
       /\ (t = 3 /\ ~loops[l].config.useThinkingModel) => size = 3
       /\ (t = 5 /\ loops[l].config.useThinkingModel) => size = 1

\* three tasks and the fast model on a table of more than three rows: the first
\* batch is rows 0 to 2, nine invocations
C15_Witness ==
  \E l \in 1..Len(loops) :
    /\ Len(loops[l].config.tasks) = 3 /\ ~loops[l].config.useThinkingModel
    /\ Len(data) > 3
    /\ loops[l].BATCH_SIZE = 3 /\ loops[l].batchEnd = 3
    /\ Len(loops[l].promises) = 9

\* the number of rows the claim gives a run of config over a table of size rows
ClaimedRowCount(config, size) ==
  IF config.rowLimit > 0
  THEN (IF size < config.rowLimit THEN size ELSE config.rowLimit)
  ELSE size

\* the size of the table loop l was started on, in a step loop l takes
TableSize(l) == IF l <= Len(loops) THEN Len(loops[l].newData) ELSE Len(data)

\* C16: a run processes the first min(tableSize, rowLimit) rows when rowLimit is
\* positive and all rows otherwise: its first batch begins at row 0, every
\* invocation it fires is for a row below that count, a publish leaves the rows from
\* that count on as they were, and when the loop ends its last batch ended at that
\* count, processedCount is that count and every row below it that has a subject
\* has its task columns.
C16_RowsProcessed ==
  [][ \A l \in 1..Len(loops') :
        LET config == loops'[l].config
            count == ClaimedRowCount(config, TableSize(l))
        IN /\ l > Len(loops) => loops'[l].i = 0
           /\ Fires(l) =>
                \A n \in 1..Len(loops'[l].promises) :
                  /\ loops'[l].promises[n][1] >= loops'[l].i
                  /\ loops'[l].promises[n][1] < count
           /\ (l <= Len(loops) /\ Publishes(l)) =>
                \A r \in (count + 1)..TableSize(l) : data'[r] = loops[l].newData[r]
           /\ ((l > Len(loops) \/ Live(loops[l])) /\ loops'[l].pc = Done) =>
                /\ loops'[l].batchEnd = count
                /\ processedCount' = count
                /\ \A r \in 1..count :
                     EntityName(data'[r], config) # EmptyStr =>
                       \A t \in 1..Len(config.tasks) :
                         HasKey(data'[r], config.tasks[t].newColumnName) ]_vars

\* a run limited to one row of a two-row table has completed: row 1 is written,
\* row 2 is not
C16_Witness ==
  \E l \in 1..Len(loops) :
    /\ loops[l].pc = Done
    /\ loops[l].config.rowLimit = 1
    /\ Len(data) > 1
    /\ status = COMPLETED /\ processedCount = 1
    /\ HasKey(data[1], CeoCol)
    /\ \A r \in 2..Len(data) : ~HasKey(data[r], CeoCol)

\* a run with a row limit above the table's size has completed over all its rows
C16_WitnessAbove ==
  \E l \in 1..Len(loops) :
    /\ loops[l].pc = Done
    /\ loops[l].config.rowLimit > Len(data)
    /\ Len(data) > 0
    /\ status = COMPLETED /\ processedCount = Len(data)

\* the values of the target columns, each trimmed, the empty ones dropped
RECURSIVE TrimmedNonEmpty(_, _)
TrimmedNonEmpty(row, targets) ==
  IF targets = <<>> THEN <<>>
  ELSE LET val == IF HasKey(row, Head(targets)) THEN Trim(Get(row, Head(targets))) ELSE EmptyStr
       IN (IF val # EmptyStr THEN <<val>> ELSE <<>>) \o TrimmedNonEmpty(row, Tail(targets))

\* the subject the claim gives a row
ClaimedSubject(row, config) == Join(TrimmedNonEmpty(row, config.targetColumns), <<Space>>)

\* the calls of the first batch of the loop a start() on the loaded table began
FirstCalls(l) == BatchCalls(data, loops[l].config, 0, loops[l].batchEnd)

\* C17: the subject of every invocation in flight is the values of the row's target
\* columns, each trimmed of surrounding whitespace, the empty ones dropped, joined
\* by a single space in targetColumns order.
C17_SubjectTrimmedJoined ==
  \A l \in 1..Len(loops) :
    loops[l].pc = AwaitBatch =>
      /\ Len(FirstCalls(l)) = Len(loops[l].promises)
      /\ \A n \in 1..Len(FirstCalls(l)) :
           FirstCalls(l)[n].entityName =
             ClaimedSubject(data[FirstCalls(l)[n].rowIndex + 1], loops[l].config)

\* one "<columnName>: <value>" entry for every column of cols that is neither a
\* target column nor a task column, a missing value being the empty string
RECURSIVE ClaimedContextParts(_, _, _)
ClaimedContextParts(cols, row, config) ==
  IF cols = <<>> THEN <<>>
  ELSE (IF ~Includes(config.targetColumns, Head(cols)) /\ ~IsTaskColumn(config, Head(cols))
        THEN << Head(cols) \o <<":", " ">>
                  \o (IF HasKey(row, Head(cols)) THEN Get(row, Head(cols)) ELSE EmptyStr) >>
        ELSE <<>>) \o ClaimedContextParts(Tail(cols), row, config)

\* the context the claim gives a row of a table with the column list cols
ClaimedContext(cols, row, config) == Join(ClaimedContextParts(cols, row, config), <<",", " ">>)

\* the working copy loop l builds a batch from, in a step in which it fires one
FiringCopy(l) == IF l <= Len(loops) THEN loops[l].newData ELSE data

\* the calls of the batch loop l fires in this step
FiredCalls(l) ==
  BatchCalls(FiringCopy(l), loops'[l].config, loops'[l].i, loops'[l].batchEnd)

\* C18: the context of every invocation the current run fires has one
\* "<columnName>: <value>" entry for every column of the table's column list that is
\* neither a target column nor a task's newColumnName, and no other, joined by ", "
\* in the order of the column list.
C18_ContextFromColumnSet ==
  [][ (Latest' > 0 /\ Fires(Latest')) =>
        \A n \in 1..Len(FiredCalls(Latest')) :
          FiredCalls(Latest')[n].context =
            ClaimedContext(columns', FiringCopy(Latest')[FiredCalls(Latest')[n].rowIndex + 1],
                           loops'[Latest'].config) ]_vars

\* row r of loop record lp's working copy has no subject under lp's configuration
Skipped(lp, r) == EntityName(lp.newData[r], lp.config) = EmptyStr

\* C19: a row whose target columns are all empty or blank gets no invocation, is the
\* same in the loop's working copy and in every table the loop publishes as it was
\* when the run began, and does not stop the run: a batch of such rows alone is
\* published at once and the loop goes on to its delay or its end, and a loop that
\* ends has given every row that has a subject its task columns.
C19_SkippedRowUntouched ==
  [][ \A l \in 1..Len(loops') :
        /\ Fires(l) =>
             \A n \in 1..Len(loops'[l].promises) :
               EntityName(FiringCopy(l)[loops'[l].promises[n][1] + 1], loops'[l].config)
                 # EmptyStr
        /\ (l <= Len(loops) /\ Live(loops[l])) =>
             \A r \in 1..Len(loops[l].newData) :
               Skipped(loops[l], r) =>
                 /\ Live(loops'[l]) => loops'[l].newData[r] = loops[l].newData[r]
                 /\ Publishes(l) => data'[r] = loops[l].newData[r]
        /\ ((l > Len(loops) \/ loops'[l].batchEnd # loops[l].batchEnd) /\ ~Fires(l)) =>
             /\ loops'[l].pc = IF loops'[l].batchEnd < loops'[l].effectiveTotal
                               THEN AwaitDelay ELSE Done
             /\ processedCount' = loops'[l].batchEnd
        /\ ((l > Len(loops) \/ Live(loops[l])) /\ loops'[l].pc = Done) =>
             \A r \in 1..loops'[l].effectiveTotal :
               EntityName(data'[r], loops'[l].config) # EmptyStr =>
                 \A t \in 1..Len(loops'[l].config.tasks) :
                   HasKey(data'[r], loops'[l].config.tasks[t].newColumnName) ]_vars

\* a run over a table whose first row has no name has completed: the first row is
\* as it was uploaded and the second has its task column
C19_Witness ==
  \E l \in 1..Len(loops) :
    /\ loops[l].pc = Done
    /\ status = COMPLETED
    /\ Len(data) > 1
    /\ data[1] = MkRow(BlankStr)
    /\ HasKey(data[Len(data)], CeoCol)
    /\ loops[l].fired > 0

\* C20: when a configuration has run to completion and is run again over the table
\* as the first run left it, with a provider that answers equal calls equally, every
\* value the second run writes into an output column is the value the first run
\* left there.
C20_RerunWritesSameValues ==
  [][ (Len(loops) = 2 /\ loops[1].pc = Done /\ loops[2].config = loops[1].config
       /\ Publishes(2)) =>
        \A n \in 1..Len(loops'[2].promises) :
          /\ HasKey(loops[2].newData[WriteRow(loops[2], n)], WriteCol(loops[2], n))
          /\ Get(loops[2].newData[WriteRow(loops[2], n)], WriteCol(loops[2], n))
               = loops'[2].results[n].text ]_vars

\* C21: the provenance map only grows: a step keeps every key the map has, unless
\* it is the user clearing the table or uploading a file, which empty the map.
C21_ProvenanceGrows ==
  [][ \/ DOMAIN cellSources \subseteq DOMAIN cellSources'
      \/ /\ cellSources' = << >>
         /\ handleClearData \/ handleFileUpload ]_vars

\* a run of two batches has ended and the map has the entries of both
C21_Witness ==
  \E l \in 1..Len(loops) :
    /\ loops[l].pc = Done
    /\ loops[l].i > 0
    /\ \E c1 \in {CeoCol, RevCol} : << 0, c1 >> \in DOMAIN cellSources
    /\ \E c2 \in {CeoCol, RevCol} : << loops[l].i, c2 >> \in DOMAIN cellSources

\* the keys of a row, the names in a column list
RowKeys(row) == { row[n].k : n \in 1..Len(row) }
ColumnSet(cols) == { cols[n] : n \in 1..Len(cols) }

\* C22: in every state every row of the table has exactly the columns of the
\* column list as its keys: once start() has appended the task columns every row
\* carries them.
C22_RowKeysAreColumns ==
  \A r \in 1..Len(data) : RowKeys(data[r]) = ColumnSet(columns)

\* the sources of the n-th result of loop record lp's batch are recorded in the map
\* src, when it has any
Recorded(src, lp, n) ==
  Len(lp.results[n].sources) > 0 =>
    /\ << WriteRow(lp, n) - 1, WriteCol(lp, n) >> \in DOMAIN src
    /\ src[<< WriteRow(lp, n) - 1, WriteCol(lp, n) >>] = lp.results[n].sources

\* C23: a batch in flight when cancel() is issued is not interrupted: the loop stays
\* at its await until every invocation has settled and then publishes the batch (the
\* table, the provenance, processedCount at the batch's end); the batches after it
\* are skipped: the loop fires nothing more.
C23_InFlightBatchCompletes ==
  [][ \A l \in 1..Len(loops) :
        loops[l].cancelInFlight =>
          /\ loops[l].pc = AwaitBatch =>
               \/ loops'[l].pc = AwaitBatch
               \/ /\ Publishes(l)
                  /\ DOMAIN loops'[l].results = 1..Len(loops'[l].promises)
                  /\ \A n \in 1..Len(loops'[l].promises) :
                       Written(data', loops'[l], n) /\ Recorded(cellSources', loops'[l], n)
                  /\ processedCount' = loops'[l].batchEnd
          /\ ~Fires(l) ]_vars

\* the same, without the last part: the batch in flight is completed and published
C23_InFlightPart ==
  [][ \A l \in 1..Len(loops) :
        (loops[l].cancelInFlight /\ loops[l].pc = AwaitBatch) =>
          \/ loops'[l].pc = AwaitBatch
          \/ /\ Publishes(l)
             /\ DOMAIN loops'[l].results = 1..Len(loops'[l].promises)
             /\ \A n \in 1..Len(loops'[l].promises) :
                  Written(data', loops'[l], n) /\ Recorded(cellSources', loops'[l], n)
             /\ processedCount' = loops'[l].batchEnd ]_vars

\* the (row, task) pairs, 0-based, a batch of rows from up to below to must invoke
\* on the table tbl: the rows that have a subject, every task
DuePairs(tbl, config, from, to) ==
  { << j, t >> : j \in { r \in from..(to - 1) : EntityName(tbl[r + 1], config) # EmptyStr },
                 t \in 0..(Len(config.tasks) - 1) }

\* C24: the batch a loop fires at index i has exactly one invocation for every pair
\* of a row j in [i, min(i + batchSize, effectiveTotal)) that has a subject and a
\* task, each with the row's subject and context, the task's prompt and the
\* configuration's model flag, and no other; a loop that reaches its end has fired as
\* many invocations as there are such pairs below effectiveTotal, batch after batch
\* from row 0 with no row in two batches.
C24_ExactlyOnce ==
  [][ \A l \in 1..Len(loops') :
        LET lp == loops'[l]
            to == Min(lp.i + BatchSize(lp.config), lp.effectiveTotal)
            due == DuePairs(FiringCopy(l), lp.config, lp.i, to)
        IN /\ Fires(l) =>
                /\ lp.batchEnd = to
                /\ { lp.promises[n] : n \in 1..Len(lp.promises) } = due
                /\ Len(lp.promises) = Cardinality(due)
                /\ lp.fired = Len(lp.promises) + (IF l <= Len(loops) THEN loops[l].fired ELSE 0)
                /\ lp.i = IF l <= Len(loops) THEN loops[l].batchEnd ELSE 0
                /\ Len(FiredCalls(l)) = Len(lp.promises)
                /\ \A n \in 1..Len(lp.promises) :
                     LET call == FiredCalls(l)[n]
                         row == FiringCopy(l)[lp.promises[n][1] + 1]
                     IN /\ << call.rowIndex, call.taskIndex >> = lp.promises[n]
                        /\ call.entityName = EntityName(row, lp.config)
                        /\ call.userQuery = lp.config.tasks[lp.promises[n][2] + 1].prompt
                        /\ call.context = ContextStr(row, lp.config)
                        /\ call.useThinkingModel = lp.config.useThinkingModel
           /\ ((l > Len(loops) \/ Live(loops[l])) /\ lp.pc = Done) =>
                /\ status' = COMPLETED
                /\ lp.fired = Cardinality(DuePairs(FiringCopy(l), lp.config, 0, lp.effectiveTotal)) ]_vars

\* a run of two batches, each with invocations, has reached Completed
C24_Witness ==
  \E l \in 1..Len(loops) :
    /\ loops[l].pc = Done /\ status = COMPLETED
    /\ loops[l].i > 0
    /\ loops[l].fired > Len(loops[l].promises)
    /\ Len(loops[l].promises) > 0

\* the text of loop l's result for row j (0-based) and its t-th task, in the step
\* in which the loop ends: from the batch just merged, or from an earlier one
RunResult(l, j, t) ==
  LET lp == loops'[l]
      col == lp.config.tasks[t].newColumnName
  IN IF \E n \in 1..Len(lp.promises) : lp.promises[n] = << j, t - 1 >>
     THEN lp.results[CHOOSE n \in 1..Len(lp.promises) : lp.promises[n] = << j, t - 1 >>].text
     ELSE loops[l].log[<< j, col >>]

\* C25: when a run for which no cancel was issued reaches its end, the status is
\* Completed and every row below effectiveTotal that has a subject holds, in each
\* task's column, the text of the run's result for that row and task.
C25_CompletedCellsHoldResults ==
  [][ \A l \in 1..Len(loops) :
        (Live(loops[l]) /\ loops'[l].pc = Done /\ ~loops'[l].cancelIssued) =>
          /\ status' = COMPLETED
          /\ \A j \in 0..(loops'[l].effectiveTotal - 1) :
               EntityName(data'[j + 1], loops'[l].config) # EmptyStr =>
                 \A t \in 1..Len(loops'[l].config.tasks) :
                   LET col == loops'[l].config.tasks[t].newColumnName
                   IN /\ \/ \E n \in 1..Len(loops'[l].promises) :
                               loops'[l].promises[n] = << j, t - 1 >>
                         \/ << j, col >> \in DOMAIN loops[l].log
                      /\ HasKey(data'[j + 1], col)
                      /\ Get(data'[j + 1], col) = RunResult(l, j, t) ]_vars

\* a run of two batches with two tasks has reached Completed uncancelled, one of
\* its cells holding "Error" and another an answer
C25_Witness ==
  \E l \in 1..Len(loops) :
    /\ loops[l].pc = Done /\ ~loops[l].cancelIssued /\ status = COMPLETED
    /\ loops[l].i > 0
    /\ Len(loops[l].config.tasks) = 2
    /\ Len(data) > 1
    /\ HasKey(data[1], CeoCol) /\ Get(data[1], CeoCol) = ErrorStr
    /\ HasKey(data[2], RevCol) /\ Get(data[2], RevCol) # ErrorStr

\* the provenance key of the n-th promise of loop record lp
WriteKey(lp, n) == << WriteRow(lp, n) - 1, WriteCol(lp, n) >>

\* the entry under key is in the map after the step exactly as it was before
EntryKept(key) ==
  /\ key \in DOMAIN cellSources' <=> key \in DOMAIN cellSources
  /\ key \in DOMAIN cellSources => cellSources'[key] = cellSources[key]

\* C26: when a batch is merged, the provenance entry under (rowIndex, newColumnName)
\* of each result becomes the result's sources when it has some, whatever was there,
\* and is left as it was when it has none; the entries under other keys are as they
\* were.
C26_ProvenanceMerge ==
  [][ \A l \in 1..Len(loops) :
        Publishes(l) =>
          /\ \A n \in 1..Len(loops'[l].promises) :
               IF Len(loops'[l].results[n].sources) > 0
               THEN /\ WriteKey(loops'[l], n) \in DOMAIN cellSources'
                    /\ cellSources'[WriteKey(loops'[l], n)] = loops'[l].results[n].sources
               ELSE EntryKept(WriteKey(loops'[l], n))
          /\ \A key \in (DOMAIN cellSources) \cup (DOMAIN cellSources') :
               (\A n \in 1..Len(loops'[l].promises) : WriteKey(loops'[l], n) # key)
                 => EntryKept(key) ]_vars

\* the title the deterministic provider gives its web chunk for a task over a row
StubTitle(row, config, t) ==
  config.tasks[t].prompt \o <<"|">> \o ContextStr(row, config)

\* a second run has replaced the entry the first run left under row 0's CEO cell
\* (its context had the Rev column by then) and has kept the first run's entry
\* under the Rev cell
C26_Witness ==
  /\ Len(loops) = 2 /\ loops[1].pc = Done /\ loops[2].pc = Done
  /\ Len(loops[1].config.tasks) = 2 /\ Len(loops[2].config.tasks) = 1
  /\ Len(data) > 0
  /\ << 0, CeoCol >> \in DOMAIN cellSources
  /\ << 0, RevCol >> \in DOMAIN cellSources
  /\ cellSources[<< 0, CeoCol >>][1].title = StubTitle(data[1], loops[2].config, 1)
  /\ StubTitle(data[1], loops[2].config, 1) # StubTitle(data[1], loops[1].config, 1)

\* a second run's result without sources has left the first run's entry in place
C26_WitnessKept ==
  /\ Len(loops) = 2 /\ loops[1].pc = Done /\ loops[2].pc = Done
  /\ ~loops[1].config.useThinkingModel /\ loops[2].config.useThinkingModel
  /\ Len(loops[2].config.tasks) = 2
  /\ 1 \in DOMAIN loops[2].results
  /\ Len(loops[2].results[1].sources) = 0
  /\ << 0, CeoCol >> \in DOMAIN cellSources

\* the index of the first task of the list that has the column name
FirstTask(tasks, name) == CHOOSE t \in 1..Len(tasks) :
  /\ tasks[t].newColumnName = name
  /\ \A u \in 1..(t - 1) : tasks[u].newColumnName # name

\* cols is before as a prefix, followed by the task names before lacks, each once,
\* in task order
AppendsMissing(before, cols, tasks) ==
  /\ Len(cols) >= Len(before)
  /\ SubSeq(cols, 1, Len(before)) = before
  /\ LET added == SubSeq(cols, Len(before) + 1, Len(cols))
     IN /\ ColumnSet(added) =
             { tasks[t].newColumnName : t \in 1..Len(tasks) } \ ColumnSet(before)
        /\ \A a, b \in 1..Len(added) :
             a < b => /\ added[a] # added[b]
                      /\ FirstTask(tasks, added[a]) < FirstTask(tasks, added[b])
  /\ \A t \in 1..Len(tasks) : Includes(cols, tasks[t].newColumnName)
  /\ \A a, b \in 1..Len(cols) : a # b => cols[a] # cols[b]

\* C27: start() with a configuration the form accepts leaves the existing columns,
\* in their order, as a prefix of the column list and appends, in task order, the
\* task column names that were not present, each once: every task's column is in
\* the list and no name is listed twice.
C27_ColumnsAppended ==
  [][ (Len(loops') > Len(loops) /\ isValid(loops'[Len(loops')].config)) =>
        AppendsMissing(columns, columns', loops'[Len(loops')].config.tasks) ]_vars

\* the same for the configurations whose task column names are all different
C27_UniqueNamesPart ==
  [][ (/\ Len(loops') > Len(loops) /\ isValid(loops'[Len(loops')].config)
       /\ \A t, u \in 1..Len(loops'[Len(loops')].config.tasks) :
            t # u => loops'[Len(loops')].config.tasks[t].newColumnName
                       # loops'[Len(loops')].config.tasks[u].newColumnName) =>
        AppendsMissing(columns, columns', loops'[Len(loops')].config.tasks) ]_vars

\* the delay the statement gives a configuration, in milliseconds
ClaimedDelay(config) == IF config.useThinkingModel THEN 4000 ELSE 2000

\* C28: a loop that publishes a batch which is not its last arms the inter-batch
\* delay (4000 ms with the thinking model, 2000 ms otherwise) and fires the next
\* batch only from that delay's expiry, or from a pause entered at that expiry; a
\* loop that publishes its last batch arms no delay: it ends in the same step, with
\* the status Completed.
C28_DelayBetweenBatches ==
  [][ \A l \in 1..Len(loops) :
        /\ (Publishes(l) /\ loops'[l].batchEnd < loops'[l].effectiveTotal) =>
             /\ loops'[l].pc = AwaitDelay
             /\ loops'[l].timer = ClaimedDelay(loops'[l].config)
        /\ (Publishes(l) /\ loops'[l].batchEnd >= loops'[l].effectiveTotal) =>
             /\ loops'[l].pc = Done
             /\ loops'[l].timer = 0
             /\ status' = COMPLETED
        /\ Fires(l) => loops[l].pc \in {AwaitDelay, AwaitResume}
        /\ (Fires(l) /\ loops[l].pc = AwaitDelay) =>
             loops[l].timer = ClaimedDelay(loops[l].config)
        /\ (loops'[l].pc = AwaitResume /\ loops[l].pc # AwaitResume) =>
             loops[l].pc = AwaitDelay ]_vars

\* a fast run is in its second batch, after the delay that followed its first
C28_Witness ==
  \E l \in 1..Len(loops) :
    /\ loops[l].pc = AwaitBatch
    /\ ~loops[l].config.useThinkingModel
    /\ loops[l].i > 0
    /\ processedCount = loops[l].i

\* a thinking-model run waits between its batches with the longer delay armed
C28_WitnessThinking ==
  \E l \in 1..Len(loops) :
    /\ loops[l].pc = AwaitDelay
    /\ loops[l].config.useThinkingModel
    /\ loops[l].timer = 4000
    /\ processedCount = loops[l].batchEnd

\* the results of the batch loop record lp awaits, each the provider's answer to
\* its own call
CallResults(lp) ==
  LET calls == BatchCalls(lp.newData, lp.config, lp.i, lp.batchEnd)
  IN [n \in 1..Len(calls) |-> researchEntity(StubResponse(calls[n]))]

\* the table with the first n of these results written, each into its call's cell
RECURSIVE TableInCallOrder(_, _, _)
TableInCallOrder(lp, res, n) ==
  IF n = 0 THEN lp.newData
  ELSE LET tbl == TableInCallOrder(lp, res, n - 1)
       IN [tbl EXCEPT ![WriteRow(lp, n)] = SetCell(@, WriteCol(lp, n), res[n].text)]

\* C29: with task column names all different, the table and the provenance map a
\* loop publishes after a batch are those given by each call's own result, whatever
\* the order in which the batch's invocations completed: two orders publish the
\* same table and the same map.
C29_CompletionOrderIrrelevant ==
  [][ \A l \in 1..Len(loops) :
        Publishes(l) =>
          LET res == CallResults(loops[l])
          IN /\ Len(res) = Len(loops[l].promises)
             /\ data' = TableInCallOrder(loops[l], res, Len(res))
             /\ \A n \in 1..Len(res) :
                  IF Len(res[n].sources) > 0
                  THEN /\ WriteKey(loops[l], n) \in DOMAIN cellSources'
                       /\ cellSources'[WriteKey(loops[l], n)] = res[n].sources
                  ELSE EntryKept(WriteKey(loops[l], n))
             /\ \A key \in (DOMAIN cellSources) \cup (DOMAIN cellSources') :
                  (\A n \in 1..Len(res) : WriteKey(loops[l], n) # key) => EntryKept(key) ]_vars

\* a batch of two invocations with different answers was published when its first
\* call completed last
C29_Witness ==
  \E l \in 1..Len(loops) :
    /\ loops[l].pc = AwaitDelay
    /\ Len(loops[l].promises) = 2
    /\ loops[l].lastSettled = 1
    /\ loops[l].results[1].text # loops[l].results[2].text
    /\ data = loops[l].newData
    /\ Written(data, loops[l], 1) /\ Written(data, loops[l], 2)

\* and when its first call completed first
C29_WitnessInOrder ==
  \E l \in 1..Len(loops) :
    /\ loops[l].pc = AwaitDelay
    /\ Len(loops[l].promises) = 2
    /\ loops[l].lastSettled = 2
    /\ Written(data, loops[l], 1) /\ Written(data, loops[l], 2)

\* C30: a start() on a non-empty table begins a loop and, in the same step, leaves
\* the paused flag and the cancelled flag false and the continuation slot empty,
\* whatever they were, and the configuration recorded; when that step fires the
\* first invocations the status is Processing and processedCount is 0.
C30_StartResets ==
  [][ (starts' > starts /\ Len(data) > 0) =>
        /\ Len(loops') = Len(loops) + 1
        /\ isPausedRef' = FALSE
        /\ isCancelledRef' = FALSE
        /\ resumeResolverRef' = 0
        /\ activeConfig' = << loops'[Len(loops')].config >>
        /\ Fires(Len(loops')) =>
             /\ status' = PROCESSING
             /\ processedCount' = 0 ]_vars

\* a start() called while a run was paused at its continuation and had made
\* progress: the new loop's first batch is in flight with the flags cleared, the
\* slot empty, the status Processing and the count 0
C30_Witness ==
  /\ Len(loops) = 2
  /\ loops[1].pc = AwaitResume
  /\ loops[1].i > 0
  /\ loops[2].pc = AwaitBatch
  /\ loops[2].i = 0
  /\ DOMAIN loops[2].results = {}
  /\ ~isPausedRef /\ ~isCancelledRef /\ resumeResolverRef = 0
  /\ status = PROCESSING /\ processedCount = 0
  /\ activeConfig = << loops[2].config >>

\* C31: a start() on an empty table changes nothing: the status, processedCount, the
\* active configuration, the columns, the three control refs, the provenance map
\* and the table are as before, no loop begins and none fires an invocation.
C31_StartOnEmptyTable ==
  [][ (starts' > starts /\ Len(data) = 0) =>
        /\ UNCHANGED << status, processedCount, activeConfig, columns, data, cellSources,
                        isPausedRef, isCancelledRef, resumeResolverRef, loops >>
        /\ \A l \in 1..Len(loops') : ~Fires(l) ]_vars

\* start() has been called on an empty table: no loop exists, nothing is recorded,
\* and the flags that pause() and cancel() set are standing
C31_Witness ==
  /\ starts > 0
  /\ Len(loops) = 0
  /\ Len(data) = 0
  /\ isPausedRef /\ isCancelledRef
  /\ status = IDLE /\ activeConfig = <<>>

\* the invocations of loop record lp that were fired and have not settled
InFlight(lp) ==
  IF lp.pc = AwaitBatch THEN Len(lp.promises) - Cardinality(DOMAIN lp.results) ELSE 0

RECURSIVE TotalInFlight(_)
TotalInFlight(ls) == IF ls = <<>> THEN 0 ELSE InFlight(Head(ls)) + TotalInFlight(Tail(ls))

\* max(budget, tasksPerRow) for a configuration
SlotLimit(config) == Max(ClaimedBudget(config), Len(config.tasks))

\* the largest such limit among the loops with invocations in flight
LargestLimit ==
  LET limits == { SlotLimit(loops[l].config) : l \in { k \in 1..Len(loops) : InFlight(loops[k]) > 0 } }
  IN IF limits = {} THEN 0 ELSE CHOOSE m \in limits : \A x \in limits : x <= m

\* C32: at every moment the invocations in flight for the table number at most
\* max(budget, tasksPerRow), the budget being 2 with the thinking model and 10
\* otherwise, whatever start, pause, resume and cancel went before (the limit taken
\* is the most generous one among the configurations with invocations in flight).
C32_InFlightBounded == TotalInFlight(loops) <= LargestLimit

\* the same for each loop alone
C32_PerLoopPart ==
  \A l \in 1..Len(loops) : InFlight(loops[l]) <= SlotLimit(loops[l].config)

\* table after differs from table before at most in the task columns of loop
\* record lp's configuration, in rows below its effectiveTotal
OnlyTaskCells(before, after, lp) ==
  /\ Len(after) = Len(before)
  /\ \A r \in 1..Min(Len(before), Len(after)) :
       /\ r > lp.effectiveTotal => after[r] = before[r]
       /\ \A col \in RowKeys(before[r]) \cup RowKeys(after[r]) :
            ~IsTaskColumn(lp.config, col) =>
              /\ HasKey(before[r], col) /\ HasKey(after[r], col)
              /\ Get(after[r], col) = Get(before[r], col)

\* loop l takes a step
LoopSteps(l) == l > Len(loops) \/ loops'[l] # loops[l]

\* C33: a step of a run changes the table at most in the cells of its
\* configuration's task columns in rows below effectiveTotal: no other cell, no row
\* at or beyond effectiveTotal, and neither the number nor the order of the rows.
C33_RunChangesOnlyTaskCells ==
  [][ \A l \in 1..Len(loops') : LoopSteps(l) => OnlyTaskCells(data, data', loops'[l]) ]_vars

\* the same, measured against the loop's own working copy instead of the table on
\* the page
C33_OwnCopyPart ==
  [][ \A l \in 1..Len(loops') :
        (LoopSteps(l) /\ data' # data) => OnlyTaskCells(FiringCopy(l), data', loops'[l]) ]_vars

\* the page as handleClearData leaves it
Cleared ==
  /\ data = <<>> /\ columns = <<>> /\ cellSources = << >>
  /\ processedCount = 0 /\ status = IDLE

\* C34: once the user has cleared the table, the table, the column list and the
\* provenance map stay empty, processedCount stays 0 and the status stays Idle
\* until a new upload or start: no step of an earlier run changes them.
C34_ClearedStaysCleared ==
  [][ (Cleared /\ ~parsing /\ uploads' = uploads /\ starts' = starts)
        => (Cleared)' ]_vars

\* ---------------------------------------------------------------- the sheet: Remove Duplicates
Separator == <<"|", "|", "|">>

\* row[col] || ''
CellOrEmpty(row, col) == IF HasKey(row, col) THEN Get(row, col) ELSE EmptyStr

\* selectedColumns.map(col => row[col] || '').join('|||')
DuplicateKey(row, selectedColumns) ==
  Join([n \in 1..Len(selectedColumns) |-> CellOrEmpty(row, selectedColumns[n])], Separator)

\* handleRemoveDuplicates: data.forEach pushing the rows whose key was not seen
RECURSIVE uniqueData(_, _, _)
uniqueData(rows, selectedColumns, seen) ==
  IF rows = <<>> THEN <<>>
  ELSE LET key == DuplicateKey(Head(rows), selectedColumns)
       IN IF key \in seen
          THEN uniqueData(Tail(rows), selectedColumns, seen)
          ELSE << Head(rows) >> \o uniqueData(Tail(rows), selectedColumns, seen \cup {key})

\* calculateDuplicates: the duplicateCount it sets for a non-empty selection
RECURSIVE calculateDuplicates(_, _, _)
calculateDuplicates(rows, selectedColumns, seen) ==
  IF rows = <<>> THEN 0
  ELSE LET key == DuplicateKey(Head(rows), selectedColumns)
       IN IF key \in seen
          THEN 1 + calculateDuplicates(Tail(rows), selectedColumns, seen)
          ELSE calculateDuplicates(Tail(rows), selectedColumns, seen \cup {key})

\* the columns of cols whose index is in picked, in the order of cols
RECURSIVE Pick(_, _, _)
Pick(cols, picked, n) ==
  IF n > Len(cols) THEN <<>>
  ELSE (IF n \in picked THEN << cols[n] >> ELSE <<>>) \o Pick(cols, picked, n + 1)

\* what the modal's checkboxes can hold: the ticked columns, at least one
Selections(cols) == { Pick(cols, picked, 1) : picked \in (SUBSET (1..Len(cols))) \ {{}} }

\* The Remove button of the modal: enabled for a non-empty selection with
\* duplicates; onDataChange is App's setData
handleRemoveDuplicates ==
  /\ \E selectedColumns \in Selections(columns) :
       /\ calculateDuplicates(data, selectedColumns, {}) # 0
       /\ data' = uniqueData(data, selectedColumns, {})
  /\ UNCHANGED << columns, status, processedCount, activeConfig, cellSources, isPausedRef,
                  isCancelledRef, resumeResolverRef, apiKey, parsing, loops, starts, uploads >>

\* the sheet is rendered with the panel, whatever the status
SheetRemoveDuplicates == PanelShown /\ handleRemoveDuplicates

\* The page with the sheet's Remove Duplicates and runs that are paused and resumed
\* but not cancelled
NextSheet ==
  \/ ClickStart
  \/ ClickPause
  \/ ClickResume
  \/ SheetRemoveDuplicates
  \/ DropFile
  \/ ParseDone
  \/ ParseFail
  \/ Settle
  \/ DelayDone

SpecSheet == Init /\ [][NextSheet]_vars

\* C35: when the table was changed through onDataChange while a run was Processing
\* or Paused (it is no longer the loop's working copy), the loop's next publish
\* keeps the change: the table has the rows it had before the publish, with only
\* task cells written.
C35_SheetChangeSurvivesPublish ==
  [][ \A l \in 1..Len(loops) :
        (Publishes(l) /\ data # loops[l].newData) =>
          /\ Len(data') = Len(data)
          /\ \A r \in 1..Min(Len(data), Len(data')) :
               \A col \in RowKeys(data[r]) :
                 ~IsTaskColumn(loops[l].config, col) =>
                   CellOrEmpty(data'[r], col) = CellOrEmpty(data[r], col) ]_vars

\* some answer of the provider gives a result with this text and these sources
ResultOf(text, sources) ==
  \E response \in Responses :
    /\ researchEntity(response).text = text
    /\ researchEntity(response).sources = sources

\* C36: between merges, every provenance entry under (row, column) is the sources
\* of the result whose text is in that cell of the table: a cell overwritten by a
\* result without sources ("Error", "N/A") has no entry left from the earlier
\* result.
C36_ProvenanceMatchesCell ==
  \A key \in DOMAIN cellSources :
    /\ key[1] + 1 <= Len(data)
    /\ HasKey(data[key[1] + 1], key[2])
    /\ ResultOf(Get(data[key[1] + 1], key[2]), cellSources[key])

\* C37: pause(), resume() and cancel() called while no run is active (the status
\* Idle or Completed) leave the status as it is; so the status is Processing or
\* Paused only while an orchestration loop exists.
C37_ControlsIdleNoEffect ==
  [][ (status \in {IDLE, COMPLETED} /\ (handlePause \/ handleResume \/ handleCancel))
        => status' = status ]_vars

\* the status is Processing or Paused only while a loop is alive
C37_RunningOnlyWithLoop ==
  status \in {PROCESSING, PAUSED} => \E l \in 1..Len(loops) : Live(loops[l])

\* ---------------------------------------------------------------- Remove Duplicates alone
\* rows of a loaded table in the sheet
MaxSheetRows == 3

AStr == <<"a">>
ASepStr == <<"a", "|", "|", "|">>
BStr == <<"b">>
SepStr == <<"|", "|", "|">>

SheetRow(name, notes) == << [k |-> NameCol, v |-> name], [k |-> NotesCol, v |-> notes] >>

SheetRows == { SheetRow(name, notes) : name \in {AStr, ASepStr, BStr},
                                       notes \in {EmptyStr, SepStr, NoteStr} }

RECURSIVE SheetTables(_)
SheetTables(n) ==
  IF n = 0 THEN { <<>> }
  ELSE { Append(t, r) : t \in SheetTables(n - 1), r \in SheetRows }

\* the page with one of the tables loaded
InitSheet ==
  /\ data \in UNION { SheetTables(n) : n \in 1..MaxSheetRows }
  /\ columns = FileColumns
  /\ status = IDLE
  /\ processedCount = 0
  /\ activeConfig = <<>>
  /\ cellSources = << >>
  /\ isPausedRef = FALSE
  /\ isCancelledRef = FALSE
  /\ resumeResolverRef = 0
  /\ apiKey \in BOOLEAN
  /\ parsing = FALSE
  /\ loops = <<>>
  /\ starts = 0
  /\ uploads = 1

NextDedup == SheetRemoveDuplicates

SpecDedup == InitSheet /\ [][NextDedup]_vars

\* rows a and b have the same value in every selected column
SameValues(a, b, selectedColumns) ==
  \A n \in 1..Len(selectedColumns) :
    CellOrEmpty(a, selectedColumns[n]) = CellOrEmpty(b, selectedColumns[n])

\* the rows of tbl that no earlier row equals in the selected columns
FirstOfGroup(tbl, selectedColumns) ==
  { r \in 1..Len(tbl) : \A q \in 1..(r - 1) : ~SameValues(tbl[q], tbl[r], selectedColumns) }

\* after is the rows of before with index in kept, in their order
KeepsInOrder(before, after, kept) ==
  /\ Len(after) = Cardinality(kept)
  /\ \A r \in kept : after[Cardinality({ q \in kept : q <= r })] = before[r]

\* C38: Remove Duplicates with a selection removes a row only if an earlier row has
\* the same value in every selected column, keeps the first row of each group of
\* such rows, keeps the kept rows in their order, and applied again with the same
\* selection removes nothing.
C38_RemoveDuplicates ==
  [][ \A selectedColumns \in Selections(columns) :
        (/\ calculateDuplicates(data, selectedColumns, {}) # 0
         /\ data' = uniqueData(data, selectedColumns, {})) =>
          /\ KeepsInOrder(data, data', FirstOfGroup(data, selectedColumns))
          /\ uniqueData(data', selectedColumns, {}) = data'
          /\ calculateDuplicates(data', selectedColumns, {}) = 0 ]_vars

\* the same for the tables none of whose values holds the key separator
NoSeparator(tbl) ==
  \A r \in 1..Len(tbl) : \A n \in 1..Len(tbl[r]) : \A c \in 1..Len(tbl[r][n].v) :
    tbl[r][n].v[c] # "|"

C38_NoSeparatorPart ==
  [][ \A selectedColumns \in Selections(columns) :
        (/\ NoSeparator(data)
         /\ calculateDuplicates(data, selectedColumns, {}) # 0
         /\ data' = uniqueData(data, selectedColumns, {})) =>
          /\ KeepsInOrder(data, data', FirstOfGroup(data, selectedColumns))
          /\ uniqueData(data', selectedColumns, {}) = data'
          /\ calculateDuplicates(data', selectedColumns, {}) = 0 ]_vars

====
